---- MODULE Spec2Model ----
(***************************************************************************)
(* A model of the lifeOS backend (agentic_backend): the retrieval-QA       *)
(* service (ChatService), the task extractor (TaskExtractor), the note     *)
(* ingestion workflow (add_note / NoteProcessor.process_note) and the      *)
(* e-mail synchronisation (EmailService.sync_emails).                      *)
(*                                                                         *)
(* External collaborators (the embedding model, the generation model, the  *)
(* vector index, the relational store, the mail provider) are modelled by  *)
(* their outcomes: every call either fails (raises) or returns one of the  *)
(* values its contract allows, chosen nondeterministically.                *)
(***************************************************************************)
EXTENDS Integers, Sequences, FiniteSets, TLC

(***************************************************************************)
(* Bounds of the model.                                                    *)
(***************************************************************************)
\* max_context_items of an ask_question call ranges over 1..MaxTopK
MaxTopK == 2
\* the diary entries (ideas) a find_idea_relationships call is given, at most
MaxIdeas == 2
\* the relationships a language-model answer lists, at most
MaxRels == 1
\* the notes added (POST /note/add requests), at most
MaxNotes == 2
\* the messages in the first user's mailbox
MaxEmails == 2
\* batch_size of a sync_emails call ranges over 1..MaxBatch
MaxBatch == 2
\* the chunks the chunking model lists in one answer, at most
MaxChunks == 2
\* the same within a sync_emails call
MaxSyncChunks == 1
\* the sync_emails calls made, at most
MaxRuns == 2
\* the tokens of a text given to chunk_text, at most
MaxTextLen == 3
\* the requests that touch the credential cache, at most
MaxCredReqs == 3

(***************************************************************************)
(* Program constants.                                                      *)
(***************************************************************************)
\* similar_notes[:3]
SimilarNotesLimit == 3
\* existing_ideas[:5]
IdeasLimit == 5
\* VectorStore.search(top_k=25)
DefaultTopK == 25
\* email_text[:500] of the fallback chunk
FallbackLimit == 500
\* "Relationship strength between 0.0 and 1.0", in tenths
StrengthMax == 10
\* "Only include relationships with strength > 0.3", in tenths
StrengthThreshold == 3

(***************************************************************************)
(* Values.                                                                 *)
(***************************************************************************)
Users == {"u1", "u2"}

\* Python's None
None == "None"

\* content_type of ask_question: a string (the declared parameter type)
ContentTypes == {"all", "email"}

\* Vectors that other producers have left in the shared index
\* "lifeos-vectorstore" before this program starts: metadata carrying the
\* keys user_id and content, which is what ask_question filters on and reads.
PreVectors ==
    { [id |-> "p1", metadata |-> [user_id |-> "u1", content |-> "c1"]],
      [id |-> "p2", metadata |-> [user_id |-> "u1", content |-> "c2"]],
      [id |-> "p3", metadata |-> [user_id |-> "u2", content |-> "c3"]],
      [id |-> "p4", metadata |-> [user_id |-> "u1"]] }

\* due_date values a model answer may carry: absent, a well-formed
\* YYYY-MM-DD HH:MM string, a placeholder string
DueDates == {None, "2025-06-02 15:00", "unknown"}

\* relationship strengths, in tenths: 0.2, 0.5, 1.2
Strengths == {2, 5, 12}

VARIABLES
    index,      \* the vectors of the Pinecone index: records [id, metadata]
    askCall,    \* what the last ask_question call did (inputs, calls made)
    askResp,    \* the dict the last ask_question call returned
    txCall,     \* what the last direct TaskExtractor call did
    txResult,   \* what the last direct TaskExtractor call returned
    notes,      \* table notes: rows [id, text, user_name]
    tasks,      \* table tasks: rows [note_id, task_type, due_date, user_name]
    diary_entries,       \* table diary_entries: rows [id, note_id, content, user_name]
    idea_relationships,  \* table idea_relationships
    np,         \* the add_note request being served: its position (pc), the
                \* locals of process_note, and the calls it has made
    emails,     \* table emails: rows [email_id, user_email_id]
    credentials_store,   \* EmailService.credentials_store: user -> credentials
    sync,       \* the sync_emails calls: per call its position (pc), its
                \* locals, and what it has done
    chCall,     \* what the last direct chunk_text call did
    chResult,   \* the chunks the last direct chunk_text call returned
    cred        \* the requests that touch the credential cache, and the
                \* coroutine the event loop is running

chatVars == <<askCall, askResp>>
txVars == <<txCall, txResult>>
noteVars == <<notes, tasks, diary_entries, idea_relationships, np>>
syncVars == <<emails, credentials_store, sync>>
chunkVars == <<chCall, chResult>>
credVars == <<cred>>

vars == <<index, askCall, askResp, txCall, txResult,
          notes, tasks, diary_entries, idea_relationships, np,
          emails, credentials_store, sync, chCall, chResult, cred>>

(***************************************************************************)
(* Helpers.                                                                *)
(***************************************************************************)
Min(a, b) == IF a <= b THEN a ELSE b

RECURSIVE SetToSeq(_)
SetToSeq(S) ==
    IF S = {} THEN <<>>
    ELSE LET x == CHOOSE y \in S : TRUE IN <<x>> \o SetToSeq(S \ {x})

Range(s) == { s[i] : i \in 1..Len(s) }

\* dict.get(key, default)
Get(d, key, default) == IF key \in DOMAIN d THEN d[key] ELSE default

(***************************************************************************)
(* VectorStore.search: dense_index.query(vector, top_k, filter).  A vector *)
(* passes the filter when its metadata holds every key of the filter with  *)
(* the filter's value; filter=None (NoFilter, a filter without keys) lets *)
(* every vector pass.  The result                                          *)
(* is the top_k passing vectors by similarity; similarity depends on the   *)
(* embedding, so which top_k is a choice: the operator gives every         *)
(* possible result.                                                        *)
(***************************************************************************)
NoFilter == <<>>

Passes(v, filter) ==
    \A k \in DOMAIN filter :
        k \in DOMAIN v.metadata /\ v.metadata[k] = filter[k]

search(ix, top_k, filter) ==
    LET passing == { v \in ix : Passes(v, filter) }
        n == Min(top_k, Cardinality(passing))
    IN  { SetToSeq(S) : S \in { T \in SUBSET passing : Cardinality(T) = n } }

(***************************************************************************)
(* ChatService._search_content: embed the query, search the index with the *)
(* filter {"user_id": user_id}, turn every match into an item.  Any        *)
(* failure yields the empty list.  embedOk / searchOk: whether the         *)
(* embedding call and the index query succeed; matches: what the index     *)
(* returned.                                                               *)
(***************************************************************************)
Item(match) ==
    [ id |-> match.id,
      content |-> Get(match.metadata, "content", ""),
      metadata |-> match.metadata,
      user_id |-> Get(match.metadata, "user_id", None) ]

\* mutant: the loop over the matches starts at the second match
_search_content_skips_first(embedOk, searchOk, matches) ==
    IF embedOk /\ searchOk /\ Len(matches) > 0
    THEN [ i \in 1..(Len(matches) - 1) |-> Item(matches[i + 1]) ]
    ELSE <<>>

_search_content(embedOk, searchOk, matches) ==
    IF embedOk /\ searchOk
    THEN [ i \in 1..Len(matches) |-> Item(matches[i]) ]
    ELSE <<>>

(***************************************************************************)
(* ChatService._generate_answer: one call of the generation model; a       *)
(* failure of the call is caught and turned into an apology string.        *)
(***************************************************************************)
_generate_answer(genOk) ==
    IF genOk THEN "generated" ELSE "error_generating_answer"

(***************************************************************************)
(* ChatService.ask_question: the returned dict and the number of calls of  *)
(* the generation model.  _prepare_context yields a block of text per item *)
(* (never blank for a non-empty item list), so _generate_answer invokes    *)
(* the model exactly when items were found.                                *)
(***************************************************************************)
ask_question(question, content_type, items, genOk) ==
    IF items = <<>>
    THEN [ resp |-> [ success |-> FALSE,
                      answer |-> "no_relevant_content",
                      context_items |-> <<>>,
                      question |-> question ],
           llm_calls |-> 0 ]
    ELSE [ resp |-> [ success |-> TRUE,
                      answer |-> _generate_answer(genOk),
                      context_items |-> items,
                      question |-> question,
                      context_used |-> Len(items),
                      content_type |-> content_type ],
           llm_calls |-> 1 ]

NoCall == [op |-> "none"]

\* POST /chat/ask: one whole ask_question call
AskQuestion ==
    \E user_id \in Users, content_type \in ContentTypes, top_k \in 1..MaxTopK,
       embedOk \in BOOLEAN, searchOk \in BOOLEAN, genOk \in BOOLEAN :
      \E matches \in search(index, top_k, [user_id |-> user_id]) :
        LET items == _search_content(embedOk, searchOk, matches)
            r == ask_question("q", content_type, items, genOk)
        IN  /\ askCall' = [ op |-> "ask_question",
                            user_id |-> user_id,
                            top_k |-> top_k,
                            \* the matches the index returned (none when the
                            \* embedding or the query failed)
                            matches |-> IF embedOk /\ searchOk THEN matches ELSE <<>>,
                            items |-> items,
                            search_failed |-> ~(embedOk /\ searchOk),
                            gen_failed |-> (r.llm_calls > 0 /\ ~genOk),
                            llm_calls |-> r.llm_calls,
                            raised |-> FALSE ]
            /\ askResp' = r.resp
            /\ UNCHANGED <<credVars, chunkVars, index, txVars, noteVars, syncVars>>

(***************************************************************************)
(* Answers of the language model.  A call of the model either raises       *)
(* (LlmError), or returns text that is not valid against the schema        *)
(* (Malformed), or returns text that parses into a value of the schema.    *)
(***************************************************************************)
LlmError == [kind |-> "error"]
Malformed == [kind |-> "malformed"]
Valid(v) == [kind |-> "valid", value |-> v]

\* TaskExtractionResult.dict()
TaskResult(log, cal, rem, calDue, remDue) ==
    [ diary |-> [ should_log |-> log, content |-> "content",
                  mood |-> None, tags |-> <<>> ],
      calendar |-> [ should_create |-> cal, title |-> "title",
                     description |-> "description", due_date |-> calDue ],
      reminder |-> [ should_create |-> rem, title |-> "title",
                     description |-> "description", due_date |-> remDue ] ]

TaskResults ==
    { TaskResult(log, cal, rem, calDue, remDue) :
        log \in BOOLEAN, cal \in BOOLEAN, rem \in BOOLEAN,
        calDue \in DueDates, remDue \in DueDates }

TaskAnswers == {LlmError, Malformed} \cup { Valid(v) : v \in TaskResults }

\* IdeaRelationship.dict(): target_idea_id is any integer and strength any
\* float the model writes (the schema constrains neither)
Relationships ==
    [ target_idea_id : 1..MaxIdeas, relationship_type : {"similar"},
      strength : Strengths, reasoning : {"reasoning"} ]

RECURSIVE SeqsUpTo(_, _)
SeqsUpTo(S, n) ==
    IF n = 0 THEN { <<>> }
    ELSE LET shorter == SeqsUpTo(S, n - 1)
         IN  shorter \cup { Append(q, x) : q \in shorter, x \in S }

RelAnswers ==
    {LlmError, Malformed} \cup { Valid(l) : l \in SeqsUpTo(Relationships, MaxRels) }

(***************************************************************************)
(* OutputFixingParser.parse (fixing_task_parser, fixing_relationship_      *)
(* parser): parse the answer; when it is not valid, ask the model once to  *)
(* repair it (answer `fix`) and parse again; when that is not valid        *)
(* either, or the repair call fails, raise.                                *)
(***************************************************************************)
\* mutant: a second repair request after the first repair failed
fixing_parse_repairs_twice(answer, fix) ==
    IF answer.kind = "valid"
    THEN [ ok |-> TRUE, value |-> answer.value, llm_calls |-> 0 ]
    ELSE IF fix.kind = "valid"
    THEN [ ok |-> TRUE, value |-> fix.value, llm_calls |-> 1 ]
    ELSE [ ok |-> FALSE, value |-> None, llm_calls |-> 2 ]

fixing_parse(answer, fix) ==
    IF answer.kind = "valid"
    THEN [ ok |-> TRUE, value |-> answer.value, llm_calls |-> 0 ]
    ELSE IF fix.kind = "valid"
    THEN [ ok |-> TRUE, value |-> fix.value, llm_calls |-> 1 ]
    ELSE [ ok |-> FALSE, value |-> None, llm_calls |-> 1 ]

\* the answers of the repair call that matter: the repair call is made only
\* for a malformed answer
FixAnswers(answer, answers) ==
    IF answer.kind = "malformed" THEN answers ELSE {Malformed}

\* TaskExtractor._get_default_task_result
_get_default_task_result ==
    [ diary |-> [ should_log |-> FALSE, content |-> "",
                  mood |-> None, tags |-> <<>> ],
      calendar |-> [ should_create |-> FALSE, title |-> "",
                     description |-> "", due_date |-> None ],
      reminder |-> [ should_create |-> FALSE, title |-> "",
                     description |-> "", due_date |-> None ] ]

Prefix(s, n) == SubSeq(s, 1, Min(n, Len(s)))

(***************************************************************************)
(* TaskExtractor.extract_tasks.  answer: what the model call returns;      *)
(* fix: what the repair call returns if it is made.  The result carries    *)
(* the returned dict, the similar notes put in the prompt, the number of   *)
(* model calls and whether an exception left the method.                   *)
(***************************************************************************)
\* mutant: no handler around the parse, so a parse failure leaves the method
extract_tasks_parse_unhandled(note_text, similar_notes, answer, fix) ==
    LET context == Prefix(similar_notes, SimilarNotesLimit)
    IN  IF answer.kind = "error"
        THEN [ result |-> _get_default_task_result, context |-> context,
               llm_calls |-> 1, raised |-> FALSE ]
        ELSE LET p == fixing_parse(answer, fix)
             IN  [ result |-> IF p.ok THEN p.value ELSE None,
                   context |-> context,
                   llm_calls |-> 1 + p.llm_calls, raised |-> ~p.ok ]

extract_tasks(note_text, similar_notes, answer, fix) ==
    LET context == Prefix(similar_notes, SimilarNotesLimit)
    IN  IF answer.kind = "error"
        THEN [ result |-> _get_default_task_result, context |-> context,
               llm_calls |-> 1, raised |-> FALSE ]
        ELSE LET p == fixing_parse(answer, fix)
             IN  [ result |-> IF p.ok THEN p.value
                              ELSE _get_default_task_result,
                   context |-> context,
                   llm_calls |-> 1 + p.llm_calls, raised |-> FALSE ]

(***************************************************************************)
(* TaskExtractor.find_idea_relationships.                                  *)
(***************************************************************************)
\* mutant: no early return for an empty list of existing ideas
find_idea_relationships_no_guard(new_idea, existing_ideas, answer, fix) ==
    LET prompted == Prefix(existing_ideas, IdeasLimit)
    IN  IF answer.kind = "error"
        THEN [ result |-> <<>>, prompted |-> prompted, llm_calls |-> 1,
               raised |-> FALSE ]
        ELSE LET p == fixing_parse(answer, fix)
             IN  [ result |-> IF p.ok THEN p.value ELSE <<>>,
                   prompted |-> prompted,
                   llm_calls |-> 1 + p.llm_calls, raised |-> FALSE ]

find_idea_relationships(new_idea, existing_ideas, answer, fix) ==
    IF existing_ideas = <<>>
    THEN [ result |-> <<>>, prompted |-> <<>>, llm_calls |-> 0,
           raised |-> FALSE ]
    ELSE LET prompted == Prefix(existing_ideas, IdeasLimit)
         IN  IF answer.kind = "error"
             THEN [ result |-> <<>>, prompted |-> prompted, llm_calls |-> 1,
                    raised |-> FALSE ]
             ELSE LET p == fixing_parse(answer, fix)
                  IN  [ result |-> IF p.ok THEN p.value ELSE <<>>,
                        prompted |-> prompted,
                        llm_calls |-> 1 + p.llm_calls, raised |-> FALSE ]

\* ideas as get_idea_graph_data returns them: rows of diary_entries
Idea(i) == [ id |-> i, content |-> "content" ]

IdeaLists == { [ i \in 1..n |-> Idea(i) ] : n \in 0..MaxIdeas }

\* a direct call of extract_tasks.  The extractor keeps no state between
\* calls, so one call per behaviour covers every call.
ExtractTasks ==
    \E answer \in TaskAnswers, fix \in TaskAnswers :
        LET r == extract_tasks("note", <<>>, answer, fix)
        IN  /\ txCall = NoCall
            /\ txCall' = [ op |-> "extract_tasks", answer |-> answer,
                           fix |-> fix, llm_calls |-> r.llm_calls,
                           raised |-> r.raised ]
            /\ txResult' = r.result
            /\ UNCHANGED <<credVars, chunkVars, index, chatVars, noteVars, syncVars>>

\* a direct call of find_idea_relationships
FindIdeaRelationships ==
    \E existing_ideas \in IdeaLists, answer \in RelAnswers, fix \in RelAnswers :
        LET r == find_idea_relationships("idea", existing_ideas, answer, fix)
        IN  /\ txCall = NoCall
            /\ txCall' = [ op |-> "find_idea_relationships",
                           existing_ideas |-> existing_ideas,
                           answer |-> answer, fix |-> fix,
                           llm_calls |-> r.llm_calls, raised |-> r.raised ]
            /\ txResult' = r.result
            /\ UNCHANGED <<credVars, chunkVars, index, chatVars, noteVars, syncVars>>

(***************************************************************************)
(* POST /note/add (add_note) and NoteProcessor.process_note.               *)
(*                                                                         *)
(* One request is served at a time; np.pc is its position:                 *)
(*   idle -> extract -> calendar -> reminder -> diary -> relationships     *)
(*        -> returned | raised                                             *)
(* "raised": an exception left process_note (no statement of process_note  *)
(* or add_note is inside a try).  np.attempted: the creations requested    *)
(* from the store; np.failed: those whose insert raised.                   *)
(***************************************************************************)
NoteIdle ==
    [ pc |-> "idle", note_id |-> 0, user_name |-> None, matches |-> <<>>,
      context |-> <<>>, extracted |-> FALSE,
      task_data |-> _get_default_task_result, created_tasks |-> <<>>,
      attempted |-> {}, failed |-> {}, new_idea_id |-> 0,
      existing_ideas |-> <<>>, relationships |-> <<>> ]

NoteText(n) == <<"text", n>>

\* the vector add_note upserts for a note
NoteVector(n, user_name) ==
    [ id |-> <<"note", n>>,
      metadata |-> [ text |-> NoteText(n), user |-> user_name ] ]

NoteSteps == {"embed", "upsert", "store_note", "embed_again", "search", "none"}

\* add_note up to the call of extract_tasks: embed the note, upsert it into
\* the index, store it, then (process_note) embed it again and search the
\* index for similar notes.  failAt: the first call that raises, if any.
AddNote ==
    \E user_name \in Users, failAt \in NoteSteps :
        LET note_id == np.note_id + 1
            upserted == failAt \notin {"embed", "upsert"}
            stored == upserted /\ failAt # "store_note"
            ix == IF upserted THEN index \cup {NoteVector(note_id, user_name)}
                  ELSE index
        IN  /\ np.pc \in {"idle", "returned", "raised"}
            /\ note_id <= MaxNotes
            /\ index' = ix
            /\ notes' = IF stored
                        THEN notes \cup { [ id |-> note_id,
                                            text |-> NoteText(note_id),
                                            user_name |-> user_name ] }
                        ELSE notes
            /\ \E matches \in search(ix, DefaultTopK, NoFilter) :
                 np' = [ NoteIdle EXCEPT
                           !.pc = IF failAt = "none" THEN "extract" ELSE "raised",
                           !.note_id = note_id,
                           !.user_name = user_name,
                           !.matches = IF failAt = "none" THEN matches ELSE <<>> ]
            /\ UNCHANGED <<credVars, chunkVars, tasks, diary_entries, idea_relationships,
                           chatVars, txVars, syncVars>>

\* process_note step 2: extract_tasks(note_text, matches)
NoteExtract ==
    \E answer \in TaskAnswers :
      \E fix \in FixAnswers(answer, TaskAnswers) :
        LET r == extract_tasks(NoteText(np.note_id), np.matches, answer, fix)
        IN  /\ np.pc = "extract"
            /\ np' = [ np EXCEPT
                         !.pc = IF r.raised THEN "raised" ELSE "calendar",
                         !.extracted = ~r.raised,
                         !.context = r.context,
                         !.task_data = r.result ]
            /\ UNCHANGED <<credVars, chunkVars, index, notes, tasks, diary_entries,
                           idea_relationships, chatVars, txVars, syncVars>>

\* SupabaseService.create_task: the row inserted
TaskRow(note_id, task_type, task, user_name) ==
    [ note_id |-> note_id, task_type |-> task_type,
      due_date |-> task.due_date, user_name |-> user_name ]

\* process_note step 3, one of the two task creations: when the flag is
\* set, insert the task and append the label; an insert that raises ends
\* process_note.  insertOk: whether the insert succeeds.
CreateTaskStep(task_type, next, insertOk) ==
    LET task == np.task_data[task_type]
    IN  IF task.should_create
        THEN /\ tasks' = IF insertOk
                         THEN tasks \cup { TaskRow(np.note_id, task_type, task,
                                                   np.user_name) }
                         ELSE tasks
             /\ np' = [ np EXCEPT
                          !.attempted = @ \cup {task_type},
                          !.failed = IF insertOk THEN @ ELSE @ \cup {task_type},
                          !.created_tasks = IF insertOk THEN Append(@, task_type)
                                            ELSE @,
                          !.pc = IF insertOk THEN next ELSE "raised" ]
        ELSE /\ insertOk
             /\ tasks' = tasks
             /\ np' = [ np EXCEPT !.pc = next ]

NoteCalendar ==
    \E insertOk \in BOOLEAN :
        /\ np.pc = "calendar"
        /\ CreateTaskStep("calendar", "reminder", insertOk)
        /\ UNCHANGED <<credVars, chunkVars, index, notes, diary_entries, idea_relationships,
                       chatVars, txVars, syncVars>>

NoteReminder ==
    \E insertOk \in BOOLEAN :
        /\ np.pc = "reminder"
        /\ CreateTaskStep("reminder", "diary", insertOk)
        /\ UNCHANGED <<credVars, chunkVars, index, notes, diary_entries, idea_relationships,
                       chatVars, txVars, syncVars>>

\* SupabaseService.get_idea_graph_data(user_name)["nodes"]
get_idea_graph_nodes(entries, user_name) ==
    SetToSeq({ e \in entries : e.user_name = user_name })

\* process_note, the diary entry: when should_log is set, insert the entry;
\* when the insert returned the row, fetch the user's ideas for the
\* relationship search, else append the label and return.
\* insertOk: the insert succeeds; hasData: its response carries the row;
\* graphOk: get_idea_graph_data succeeds.
NoteDiary ==
    \E insertOk \in BOOLEAN, hasData \in BOOLEAN, graphOk \in BOOLEAN :
        LET diary == np.task_data.diary
            new_id == Cardinality(diary_entries) + 1
            entries == diary_entries \cup
                         { [ id |-> new_id, note_id |-> np.note_id,
                             content |-> diary.content,
                             user_name |-> np.user_name ] }
        IN  /\ np.pc = "diary"
            /\ IF ~diary.should_log
               THEN /\ insertOk /\ hasData /\ graphOk
                    /\ diary_entries' = diary_entries
                    /\ np' = [ np EXCEPT !.pc = "returned" ]
               ELSE IF ~insertOk
               THEN /\ hasData /\ graphOk
                    /\ diary_entries' = diary_entries
                    /\ np' = [ np EXCEPT !.attempted = @ \cup {"diary"},
                                         !.failed = @ \cup {"diary"},
                                         !.pc = "raised" ]
               ELSE IF ~hasData
               THEN /\ graphOk
                    /\ diary_entries' = entries
                    /\ np' = [ np EXCEPT !.attempted = @ \cup {"diary"},
                                         !.created_tasks = Append(@, "diary"),
                                         !.pc = "returned" ]
               ELSE /\ diary_entries' = entries
                    /\ np' = [ np EXCEPT
                                 !.attempted = @ \cup {"diary"},
                                 !.new_idea_id = new_id,
                                 !.existing_ideas =
                                     IF graphOk
                                     THEN get_idea_graph_nodes(entries, np.user_name)
                                     ELSE <<>>,
                                 !.pc = IF graphOk THEN "relationships"
                                        ELSE "raised" ]
            /\ UNCHANGED <<credVars, chunkVars, index, notes, tasks, idea_relationships,
                           chatVars, txVars, syncVars>>

\* SupabaseService.create_idea_relationship: the row inserted
RelationshipRow(source_idea_id, rel) ==
    [ source_idea_id |-> source_idea_id,
      target_idea_id |-> rel.target_idea_id,
      relationship_type |-> rel.relationship_type,
      strength |-> rel.strength ]

\* process_note, the relationships of the new diary entry: ask the
\* extractor, insert every relationship it returns, append the label.
\* failAt: the insert that raises (0: none does).
NoteRelationships ==
    \E answer \in RelAnswers :
      \E fix \in FixAnswers(answer, RelAnswers) :
        LET r == find_idea_relationships(np.task_data.diary.content,
                                         np.existing_ideas, answer, fix)
            rels == r.result
        IN  \E failAt \in 0..Len(rels) :
              LET inserted == IF failAt = 0 THEN rels
                              ELSE SubSeq(rels, 1, failAt - 1)
              IN  /\ np.pc = "relationships"
                  /\ idea_relationships' = idea_relationships \cup
                        { RelationshipRow(np.new_idea_id, inserted[i]) :
                            i \in 1..Len(inserted) }
                  /\ np' = [ np EXCEPT
                               !.relationships = rels,
                               !.created_tasks = IF failAt = 0
                                                 THEN Append(@, "diary") ELSE @,
                               !.pc = IF failAt = 0 THEN "returned"
                                      ELSE "raised" ]
                  /\ UNCHANGED <<credVars, chunkVars, index, notes, tasks, diary_entries,
                                 chatVars, txVars, syncVars>>

\* what process_note returns
NoteResult ==
    [ note_id |-> np.note_id, created_tasks |-> np.created_tasks,
      task_data |-> np.task_data ]

(***************************************************************************)
(* TextChunkingService.chunk_text.  A text is the sequence of its tokens:  *)
(* "w" a word, "s" a whitespace character, "url" a link, an e-mail address *)
(* or a telephone number (what _clean_text deletes).                       *)
(***************************************************************************)
Tokens == {"w", "s", "url"}

Texts == SeqsUpTo(Tokens, MaxTextLen)

\* not text.strip()
IsBlank(text) == \A i \in 1..Len(text) : text[i] = "s"

\* re.sub(r'\s+', ' ', text): a run of whitespace becomes one blank
RECURSIVE CollapseWhitespace(_)
CollapseWhitespace(text) ==
    IF Len(text) <= 1 THEN text
    ELSE IF text[1] = "s" /\ text[2] = "s"
    THEN CollapseWhitespace(Tail(text))
    ELSE <<text[1]>> \o CollapseWhitespace(Tail(text))

\* str.strip()
RECURSIVE Strip(_)
Strip(text) ==
    IF text = <<>> THEN text
    ELSE IF text[1] = "s" THEN Strip(Tail(text))
    ELSE IF text[Len(text)] = "s" THEN Strip(SubSeq(text, 1, Len(text) - 1))
    ELSE text

\* _clean_text: collapse the whitespace, delete links, addresses and
\* numbers, strip
_clean_text(text) ==
    IF text = <<>> THEN <<>>
    ELSE LET NotUrl(t) == t # "url"
         IN  Strip(SelectSeq(CollapseWhitespace(text), NotUrl))

\* texts the chunking model may write for a chunk, some ending like the
\* suffix "_<i>" that the chunk id is formatted with
ChunkTexts == { <<"w">>, <<"w", "_", "0">>, <<"w", "_", "1">> }

\* the same within a sync_emails call
SyncChunkTexts == { <<"w">> }

\* ChunkAnalysis: what the model writes for one chunk
ChunkAnalyses == [ chunk_text : ChunkTexts, chunk_type : {"summary"} ]

\* the answers of the chunking model: the call fails, the answer does not
\* parse as ChunkAnalysisBlocks, or it does (chunks: any list)
ChunkAnswers ==
    {LlmError, Malformed} \cup
    { Valid(l) : l \in SeqsUpTo(ChunkAnalyses, MaxChunks) }

\* the fallback chunk of summarize_chunk_text
fallback_chunk(email_text) ==
    [ chunk_text |-> IF Len(email_text) > FallbackLimit
                     THEN Append(SubSeq(email_text, 1, FallbackLimit), "...")
                     ELSE email_text,
      chunk_type |-> "fallback_summary" ]

\* summarize_chunk_text: the chunks of the parsed answer; the one fallback
\* chunk when the call or the parse raises
summarize_chunk_text(email_text, answer) ==
    IF answer.kind = "valid" THEN answer.value
    ELSE <<fallback_chunk(email_text)>>

\* str(i): the decimal digits of i
RECURSIVE Digits(_)
Digits(i) ==
    IF i < 10 THEN <<ToString(i)>>
    ELSE Digits(i \div 10) \o <<ToString(i % 10)>>

\* mutant: the id is the digest of the text alone
ChunkId_without_position(text, i) == text

\* hashlib.sha256(f"{chunk_text}_{i}".encode()).hexdigest(): the digest
\* stands for the string it is taken of (no two strings met share one)
ChunkId(text, i) == text \o <<"_">> \o Digits(i)

\* Chunk(...) for the analysis at position i (from 0)
Chunk(analysis, i, email_id) ==
    [ chunk_type |-> analysis.chunk_type,
      chunk_id |-> ChunkId(analysis.chunk_text, i),
      chunk_text |-> analysis.chunk_text,
      email_id |-> email_id,
      type |-> "email_chunk" ]

\* mutant: no guard for a blank text
chunk_text_no_blank_guard(text, email_id, answer) ==
    LET analysis == summarize_chunk_text(_clean_text(text), answer)
    IN  [ chunks |-> [ k \in 1..Len(analysis) |->
                         Chunk(analysis[k], k - 1, email_id) ],
          llm_calls |-> 1, raised |-> FALSE ]

\* chunk_text(text, email_id=email_id).  answer: what the model call
\* returns if it is made.
chunk_text(text, email_id, answer) ==
    IF IsBlank(text)
    THEN [ chunks |-> <<>>, llm_calls |-> 0, raised |-> FALSE ]
    ELSE LET analysis == summarize_chunk_text(_clean_text(text), answer)
         IN  [ chunks |-> [ k \in 1..Len(analysis) |->
                              Chunk(analysis[k], k - 1, email_id) ],
               llm_calls |-> 1, raised |-> FALSE ]

\* a direct call of chunk_text.  The service keeps no state between calls,
\* so one call per behaviour covers every call.
ChunkText ==
    \E text \in Texts, answer \in ChunkAnswers :
        LET r == chunk_text(text, "", answer)
        IN  /\ chCall = NoCall
            /\ chCall' = [ op |-> "chunk_text", text |-> text,
                           answer |-> answer, llm_calls |-> r.llm_calls,
                           raised |-> r.raised ]
            /\ chResult' = r.chunks
            /\ UNCHANGED <<credVars, index, chatVars, txVars, noteVars, syncVars>>

(***************************************************************************)
(* EmailService: credentials, and sync_emails.                             *)
(***************************************************************************)
Runs == 1..MaxRuns

\* Gmail: the messages of a user's mailbox, in the order messages.list
\* returns them.  A message id is written <<user, k>>.
MailboxSize(user) == IF user = "u1" THEN MaxEmails ELSE 1

Mailbox(user) == [ k \in 1..MailboxSize(user) |-> <<user, k>> ]

\* Email.content as _extract_body gives it: the second user's message has
\* no text but whitespace
EmailContent(email_id) == IF email_id[1] = "u1" THEN <<"w">> ELSE <<"s">>

\* handle_oauth_callback: fetch_token, then credentials_store[state] = credentials
HandleOAuthCallback ==
    \E user \in Users :
        /\ credentials_store[user] # "valid"
        /\ credentials_store' = [ credentials_store EXCEPT ![user] = "valid" ]
        /\ UNCHANGED <<credVars, chunkVars, index, emails, sync, chatVars, txVars, noteVars>>

\* time passes: the access token of stored credentials expires
TokenExpires ==
    \E user \in Users :
        /\ credentials_store[user] = "valid"
        /\ credentials_store' = [ credentials_store EXCEPT ![user] = "expired" ]
        /\ UNCHANGED <<credVars, chunkVars, index, emails, sync, chatVars, txVars, noteVars>>

\* _get_credentials: None without stored credentials; expired credentials
\* are refreshed and stored again, and None is returned when the refresh
\* fails.  refreshOk: whether the refresh succeeds.
_get_credentials(store, user_id, refreshOk) ==
    IF store[user_id] = "none"
    THEN [ credentials |-> None, store |-> store ]
    ELSE IF store[user_id] = "expired"
    THEN IF refreshOk
         THEN [ credentials |-> "valid",
                store |-> [ store EXCEPT ![user_id] = "valid" ] ]
         ELSE [ credentials |-> None, store |-> store ]
    ELSE [ credentials |-> store[user_id], store |-> store ]

\* _get_existing_email_ids: the ids of the user's rows; [] when the query
\* raises.  lookupOk: whether the query succeeds.
_get_existing_email_ids(table, user, lookupOk) ==
    IF lookupOk
    THEN { row.email_id : row \in { x \in table : x.user_email_id = user } }
    ELSE {}

\* get_new_emails after the credentials: list at most max_results
\* messages, drop the excluded ids, fetch each remaining message; a
\* message whose fetch fails is skipped.  unfetched: the ids whose fetch
\* fails.
get_new_emails(user, max_results, exclude_email_ids, unfetched) ==
    LET messages == Prefix(Mailbox(user), max_results)
        Wanted(id) == id \notin exclude_email_ids /\ id \notin unfetched
    IN  SelectSeq(messages, Wanted)

ApiResponse(success, message) == [ success |-> success, message |-> message ]

SyncIdle ==
    [ pc |-> "idle", user |-> None, existing_email_ids |-> {},
      gmail_emails |-> <<>>, batch_size |-> 1,
      i |-> 1,              \* first message of the current batch
      done_in_batch |-> 0,  \* messages of the current batch processed
      processed |-> <<>>,   \* the ids chunked and embedded, in order
      batches |-> <<>>,     \* batch_result.success of the batches so far
      errors |-> <<>>,
      stored_at_begin |-> {},   \* the ids the user's rows held when the
                                \* call began
      lookup_failed |-> FALSE,  \* the query for the stored ids raised
      began_during |-> {},      \* the calls in progress when this one began
      chunking_failed |-> {},   \* the ids whose chunking-model call failed
                                \* or gave an invalid answer
      result |-> NoCall ]

\* sync_emails up to the first batch: read the stored ids, get the
\* credentials, list and fetch the new messages.
SyncBegin(r) ==
    \E user \in Users, max_emails \in 1..MaxEmails, batch_size \in 1..MaxBatch,
       lookupOk \in BOOLEAN, refreshOk \in BOOLEAN, listOk \in BOOLEAN :
      \E unfetched \in SUBSET Range(Mailbox(user)) :
        LET existing == _get_existing_email_ids(emails, user, lookupOk)
            c == _get_credentials(credentials_store, user, refreshOk)
            gmail_emails == get_new_emails(user, max_emails, existing, unfetched)
            begun == [ SyncIdle EXCEPT !.user = user,
                                       !.existing_email_ids = existing,
                                       !.lookup_failed = ~lookupOk,
                                       !.began_during =
                                           { o \in Runs : sync[o].pc = "batch" },
                                       !.stored_at_begin =
                                           _get_existing_email_ids(emails, user, TRUE),
                                       !.batch_size = batch_size ]
        IN  /\ sync[r].pc = "idle"
            /\ \A o \in Runs : o < r => sync[o].pc # "idle"
            /\ credentials_store' = c.store
            /\ sync' = [ sync EXCEPT ![r] =
                  IF c.credentials = None
                  THEN [ begun EXCEPT !.pc = "done",
                           !.result = ApiResponse(FALSE, "no_credentials") ]
                  ELSE IF ~listOk
                  THEN [ begun EXCEPT !.pc = "done",
                           !.result = ApiResponse(FALSE, "gmail_api_error") ]
                  ELSE IF gmail_emails = <<>>
                  THEN [ begun EXCEPT !.pc = "done",
                           !.result = ApiResponse(TRUE, "no_new_emails") ]
                  ELSE [ begun EXCEPT !.pc = "batch",
                           !.gmail_emails = gmail_emails ] ]
            /\ UNCHANGED <<credVars, chunkVars, index, emails, chatVars, txVars, noteVars>>

\* _store_chunk_embedding: the vector upserted for a chunk
EmailVector(email_id, chunk) ==
    [ id |-> <<"email", email_id, chunk.chunk_id>>,
      metadata |-> [ email_id |-> email_id,
                     chunk_id |-> chunk.chunk_id,
                     chunk_text |-> chunk.chunk_text,
                     chunk_type |-> chunk.chunk_type,
                     type |-> "email_chunk" ] ]

\* VectorStore.add_documents: upsert, a vector replaces the one of its id
add_documents(ix, vectors) ==
    { v \in ix : v.id \notin { d.id : d \in vectors } } \cup vectors

FirstOf(S) == CHOOSE k \in S : \A j \in S : k <= j

\* _process_email_embeddings: nothing for an e-mail without text; else the
\* chunks of chunk_text are embedded and upserted in order, and the first
\* chunk whose embedding or upsert fails ends the loop with its failure.
\* answer: what the chunking model returns; failing: the positions of the
\* chunks whose embedding or upsert fails when tried.  The result: the
\* vectors upserted, the chunks, and success of the ApiResponse returned.
_process_email_embeddings(email_id, answer, failing) ==
    LET text == EmailContent(email_id)
    IN  IF IsBlank(text)
        THEN [ vectors |-> {}, chunks |-> <<>>, success |-> TRUE ]
        ELSE LET chunks == chunk_text(text, email_id, answer).chunks
                 bad == failing \cap (1..Len(chunks))
                 last == IF bad = {} THEN Len(chunks) ELSE FirstOf(bad) - 1
             IN  [ vectors |-> { EmailVector(email_id, chunks[k]) :
                                   k \in 1..last },
                   chunks |-> chunks,
                   success |-> bad = {} ]

\* the message ids the model's mailboxes hold
EmailIds == UNION { Range(Mailbox(user)) : user \in Users }

\* the answers of the chunking model within a sync_emails call
SyncChunkAnswers ==
    { a \in ChunkAnswers :
        a.kind = "valid" =>
            /\ Len(a.value) <= MaxSyncChunks
            /\ \A k \in 1..Len(a.value) : a.value[k].chunk_text \in SyncChunkTexts }

\* a direct call of _process_email_embeddings
ProcessEmailEmbeddings ==
    \E email_id \in EmailIds, answer \in ChunkAnswers,
       failing \in SUBSET (1..MaxChunks) :
        LET r == _process_email_embeddings(email_id, answer, failing)
        IN  /\ chCall = NoCall
            /\ failing \subseteq 1..Len(r.chunks)
            /\ chCall' = [ op |-> "_process_email_embeddings",
                           email_id |-> email_id, answer |-> answer,
                           chunks |-> r.chunks, failing |-> failing ]
            /\ chResult' = ApiResponse(r.success, "processed")
            /\ index' = add_documents(index, r.vectors)
            /\ UNCHANGED <<credVars, chatVars, txVars, noteVars, syncVars>>

\* the rows the batch insert writes
EmailRows(ids, user) == { [ email_id |-> id, user_email_id |-> user ] : id \in ids }

\* mutant: a failed batch ends the loop and the call
AfterBatch_stops_on_failure(run, ok) ==
    LET next == run.i + run.batch_size
        noted == [ run EXCEPT
                     !.batches = Append(@, ok),
                     !.errors = IF ok THEN @ ELSE Append(@, "batch_failed"),
                     !.i = next,
                     !.done_in_batch = 0 ]
    IN  IF ~ok
        THEN [ noted EXCEPT !.pc = "done",
                            !.result = ApiResponse(FALSE, "batch_failed") ]
        ELSE IF next > Len(run.gmail_emails)
        THEN [ noted EXCEPT !.pc = "done",
                            !.result = ApiResponse(TRUE, "emails_synced") ]
        ELSE noted

\* the loop of sync_emails after a batch: note a failed batch in errors,
\* go on with the next batch, return after the last one
AfterBatch(run, ok) ==
    LET next == run.i + run.batch_size
        noted == [ run EXCEPT
                     !.batches = Append(@, ok),
                     !.errors = IF ok THEN @ ELSE Append(@, "batch_failed"),
                     !.i = next,
                     !.done_in_batch = 0 ]
    IN  IF next > Len(run.gmail_emails)
        THEN [ noted EXCEPT !.pc = "done",
                            !.result = ApiResponse(TRUE, "emails_synced") ]
        ELSE noted

\* _sync_batch_to_supabase_and_pinecone, one e-mail of the batch: chunk and
\* embed it (the outcome of that is not looked at); after the last e-mail
\* of the batch, insert the rows of the whole batch.  insertOk: whether
\* the insert succeeds (the connection, or a constraint of the table, may
\* make it fail).
SyncEmail(r) ==
    \E answer \in SyncChunkAnswers, failing \in SUBSET (1..MaxSyncChunks),
       insertOk \in BOOLEAN :
        LET run == sync[r]
            pos == run.i + run.done_in_batch
            email_id == run.gmail_emails[pos]
            last == Min(run.i + run.batch_size - 1, Len(run.gmail_emails))
            batch == { run.gmail_emails[k] : k \in run.i..last }
            ok == insertOk
            e == _process_email_embeddings(email_id, answer, failing)
            model_called == ~IsBlank(EmailContent(email_id))
            chunked == [ run EXCEPT
                           !.done_in_batch = @ + 1,
                           !.processed = Append(@, email_id),
                           !.chunking_failed =
                               IF model_called /\ answer.kind # "valid"
                               THEN @ \cup {email_id} ELSE @ ]
        IN  /\ run.pc = "batch"
            /\ failing \subseteq 1..Len(e.chunks)
            /\ model_called \/ answer = LlmError
            /\ index' = add_documents(index, e.vectors)
            /\ IF pos < last
               THEN /\ insertOk
                    /\ emails' = emails
                    /\ sync' = [ sync EXCEPT ![r] = chunked ]
               ELSE /\ emails' = IF ok THEN emails \cup EmailRows(batch, run.user)
                                 ELSE emails
                    /\ sync' = [ sync EXCEPT ![r] = AfterBatch(chunked, ok) ]
            /\ UNCHANGED <<credVars, chunkVars, credentials_store, chatVars, txVars, noteVars>>

(***************************************************************************)
(* The credential cache (EmailService.credentials_store) under concurrent  *)
(* requests.  Every endpoint is a coroutine of the one event loop: a       *)
(* coroutine runs until it awaits, and cred.loop is the request whose      *)
(* coroutine is running (0: none).  Credentials.refresh and                *)
(* Flow.fetch_token are blocking calls, not awaits.                        *)
(*   get:      _get_credentials: read -> [refreshing -> write]             *)
(*   callback: handle_oauth_callback: fetching -> write                    *)
(*   exchange: exchange_google_code, the Credentials built: write          *)
(* cred.ver counts the writes of a user's entry; a refresh whose write     *)
(* follows a write made after its read loses that update (cred.lost).      *)
(***************************************************************************)
CredReqs == 1..MaxCredReqs

CredKinds == {"get", "callback", "exchange"}

CredIdle == [ pc |-> "idle", kind |-> None, user |-> None, local |-> None,
              seen |-> 0 ]

CredInit ==
    [ loop |-> 0, req |-> [ r \in CredReqs |-> CredIdle ],
      ver |-> [ u \in Users |-> 0 ], lost |-> FALSE ]

\* mutant: the refresh is awaited, so the loop runs other coroutines
\* while it is in progress
AwaitsAt_refresh(kind, pc) == kind = "get" /\ pc = "refreshing"

\* the positions between the read and the write of the cache at which the
\* coroutine awaits: none (lines 109-118, 95-99 and 160-170 hold no await)
AwaitsAt(kind, pc) == FALSE

\* the request whose coroutine runs after request r reached position pc
LoopAfter(r, kind, pc) ==
    IF pc = "done" \/ AwaitsAt(kind, pc) THEN 0 ELSE r

\* the event loop may run the coroutine of request r
Runnable(r) == cred.loop \in {0, r}

\* a request arrives and its coroutine runs to the first blocking call:
\* _get_credentials reads the entry; the others go to obtain a token
CredBegin(r) ==
    \E kind \in CredKinds, user \in Users :
        LET entry == credentials_store[user]
            pc == IF kind = "get"
                  THEN IF entry = "expired" THEN "refreshing" ELSE "done"
                  ELSE IF kind = "callback" THEN "fetching" ELSE "write"
        IN  /\ cred.req[r].pc = "idle"
            /\ \A o \in CredReqs : o < r => cred.req[o].pc # "idle"
            /\ Runnable(r)
            /\ cred' = [ cred EXCEPT
                           !.req[r] = [ pc |-> pc, kind |-> kind, user |-> user,
                                        local |-> IF kind = "get" THEN entry
                                                  ELSE "valid",
                                        seen |-> cred.ver[user] ],
                           !.loop = LoopAfter(r, kind, pc) ]
            /\ UNCHANGED <<index, chatVars, txVars, noteVars, syncVars, chunkVars>>

\* credentials.refresh(Request()) and flow.fetch_token(code=code): the
\* call returns, or raises and the request ends without a write
CredObtain(r) ==
    \E ok \in BOOLEAN :
        LET q == cred.req[r]
            pc == IF ok THEN "write" ELSE "done"
        IN  /\ q.pc \in {"refreshing", "fetching"}
            /\ Runnable(r)
            /\ cred' = [ cred EXCEPT
                           !.req[r].pc = pc,
                           !.req[r].local = IF ok THEN "valid" ELSE None,
                           !.loop = LoopAfter(r, q.kind, pc) ]
            /\ UNCHANGED <<index, chatVars, txVars, noteVars, syncVars, chunkVars>>

\* credentials_store[user_id] = credentials
CredWrite(r) ==
    LET q == cred.req[r]
    IN  /\ q.pc = "write"
        /\ Runnable(r)
        /\ credentials_store' = [ credentials_store EXCEPT ![q.user] = q.local ]
        /\ cred' = [ cred EXCEPT
                       !.req[r].pc = "done",
                       !.ver[q.user] = @ + 1,
                       !.lost = @ \/ (q.kind = "get" /\ q.seen # cred.ver[q.user]),
                       !.loop = 0 ]
        /\ UNCHANGED <<index, emails, sync, chatVars, txVars, noteVars, chunkVars>>

(***************************************************************************)
(* Initial states and specifications.                                      *)
(***************************************************************************)
InitWith(ix) ==
    /\ index = ix
    /\ askCall = NoCall
    /\ askResp = NoCall
    /\ txCall = NoCall
    /\ txResult = NoCall
    /\ notes = {}
    /\ tasks = {}
    /\ diary_entries = {}
    /\ idea_relationships = {}
    /\ np = NoteIdle
    /\ emails = {}
    /\ credentials_store = [ u \in Users |-> "none" ]
    /\ sync = [ r \in Runs |-> SyncIdle ]
    /\ chCall = NoCall
    /\ chResult = <<>>
    /\ cred = CredInit

\* a deployment against an empty index
Init == InitWith({})

\* a deployment against an index that already holds vectors
InitChat == \E ix \in SUBSET PreVectors : InitWith(ix)

NextChat == AskQuestion

SpecChat == InitChat /\ [][NextChat]_vars

NextExtractor == ExtractTasks \/ FindIdeaRelationships

SpecExtractor == Init /\ [][NextExtractor]_vars

NextNotes ==
    \/ AddNote
    \/ NoteExtract
    \/ NoteCalendar
    \/ NoteReminder
    \/ NoteDiary
    \/ NoteRelationships

SpecNotes == Init /\ [][NextNotes]_vars

CredBeginStep == \E r \in CredReqs : CredBegin(r)

CredObtainStep == \E r \in CredReqs : CredObtain(r)

CredWriteStep == \E r \in CredReqs : CredWrite(r)

NextCreds ==
    \/ CredBeginStep
    \/ CredObtainStep
    \/ CredWriteStep
    \/ TokenExpires

SpecCreds == Init /\ [][NextCreds]_vars

\* e-mail chunks are stored, and questions are asked
NextRetrieval == ProcessEmailEmbeddings \/ AskQuestion

SpecRetrieval == Init /\ [][NextRetrieval]_vars

NextChunking == ChunkText \/ ProcessEmailEmbeddings

SpecChunking == Init /\ [][NextChunking]_vars

\* sync_emails is a coroutine: calls of several requests interleave where
\* one waits for the chunking model, once per e-mail.
SyncBeginStep == \E r \in Runs : SyncBegin(r)

SyncEmailStep == \E r \in Runs : SyncEmail(r)

NextSync ==
    \/ HandleOAuthCallback
    \/ TokenExpires
    \/ SyncBeginStep
    \/ SyncEmailStep

SpecSync == Init /\ [][NextSync]_vars

(***************************************************************************)
(* Properties of ask_question.                                             *)
(***************************************************************************)
Asked == askCall.op = "ask_question"

\* C1: when the index search of an ask_question call yields zero items (no
\* match, or the embedding or the query failed), the response has
\* success = false and context_used = 0, and the generation model is not
\* invoked during the call.
C1_EmptySearchShortCircuits ==
    (Asked /\ askCall.items = <<>>) =>
        /\ askResp.success = FALSE
        /\ "context_used" \in DOMAIN askResp
        /\ askResp.context_used = 0
        /\ askCall.llm_calls = 0

\* C2: when the index search of an ask_question call returns N >= 1
\* matches (N <= max_context_items), the response has context_used = N and
\* context_items holds exactly those N items, in the order returned.
C2_ContextUsedCountsMatches ==
    (Asked /\ Len(askCall.matches) >= 1) =>
        /\ Len(askCall.matches) <= askCall.top_k
        /\ "context_used" \in DOMAIN askResp
        /\ askResp.context_used = Len(askCall.matches)
        /\ Len(askResp.context_items) = Len(askCall.matches)
        /\ \A i \in 1..Len(askCall.matches) :
              /\ askResp.context_items[i].id = askCall.matches[i].id
              /\ askResp.context_items[i].metadata = askCall.matches[i].metadata

C2_Witness ==
    /\ Asked
    /\ Len(askCall.matches) = 2
    /\ askResp.context_used = 2

\* C3: when chunks were retrieved but the call of the generation model
\* fails, ask_question returns success = false with an answer describing
\* the error.
C3_FailedGenerationIsNotSuccess ==
    (Asked /\ askCall.gen_failed) =>
        /\ askResp.success = FALSE
        /\ askResp.answer = "error_generating_answer"

\* C4: ask_question never raises, and on every path the returned object
\* carries the fields success, answer, context_items and context_used.
C4_ResponseAlwaysWellFormed ==
    Asked =>
        /\ ~askCall.raised
        /\ {"success", "answer", "context_items", "context_used"}
              \subseteq DOMAIN askResp

(***************************************************************************)
(* Properties of the task extractor.                                       *)
(***************************************************************************)
\* the model call failed, or its output is not valid after the repair
ExtractionFailed ==
    \/ txCall.answer.kind = "error"
    \/ txCall.answer.kind = "malformed" /\ txCall.fix.kind # "valid"

\* C5: extract_tasks never raises to its caller; when the model call fails,
\* or the model output is still not schema-valid after repair, it returns
\* the default result: should_log and both should_create false, both due
\* dates absent.
C5_ExtractTasksDefaultsOnFailure ==
    txCall.op = "extract_tasks" =>
        /\ ~txCall.raised
        /\ ExtractionFailed =>
              /\ txResult = _get_default_task_result
              /\ ~txResult.diary.should_log
              /\ ~txResult.calendar.should_create
              /\ ~txResult.reminder.should_create
              /\ txResult.calendar.due_date = None
              /\ txResult.reminder.due_date = None

C5_Witness ==
    /\ txCall.op = "extract_tasks"
    /\ txCall.answer = Malformed
    /\ txCall.fix = Malformed
    /\ txCall.llm_calls = 2
    /\ txResult = _get_default_task_result

\* C6: find_idea_relationships called with an empty existing_ideas list
\* returns an empty list and makes no call of the language model.
C6_NoIdeasNoModelCall ==
    (txCall.op = "find_idea_relationships" /\ txCall.existing_ideas = <<>>) =>
        /\ txResult = <<>>
        /\ txCall.llm_calls = 0

\* the model, had it been called, would have answered with a relationship
C6_Witness ==
    /\ txCall.op = "find_idea_relationships"
    /\ txCall.existing_ideas = <<>>
    /\ txCall.answer.kind = "valid"
    /\ txCall.answer.value # <<>>
    /\ txResult = <<>>

(***************************************************************************)
(* Properties of process_note.                                             *)
(***************************************************************************)
ArtifactKinds == <<"calendar", "reminder", "diary">>

\* the flag of the extraction result that asks for an artifact
Flag(kind) ==
    IF kind = "diary" THEN np.task_data.diary.should_log
    ELSE np.task_data[kind].should_create

\* the store holds the artifact of this kind for the note being processed
Created(kind) ==
    IF kind = "diary"
    THEN \E e \in diary_entries : e.note_id = np.note_id
    ELSE \E t \in tasks : t.note_id = np.note_id /\ t.task_type = kind

\* process_note has ended, by a return or by an exception, after extraction
NoteEnded == np.pc \in {"returned", "raised"} /\ np.extracted

LabelsOf(P(_)) ==
    LET keep(k) == IF P(k) THEN <<k>> ELSE <<>>
    IN  keep(ArtifactKinds[1]) \o keep(ArtifactKinds[2]) \o keep(ArtifactKinds[3])

\* C8: process_note creates a calendar task iff calendar.should_create, a
\* reminder task iff reminder.should_create and a diary entry iff
\* diary.should_log (an artifact whose own insert the store refuses
\* excepted), and created_tasks lists exactly the labels of the artifacts
\* created; the all-false extraction creates nothing and returns [].
C8_ArtifactsFollowFlags ==
    NoteEnded =>
        /\ \A i \in 1..3 :
              LET k == ArtifactKinds[i]
              IN  Created(k) <=> (Flag(k) /\ k \notin np.failed)
        /\ np.pc = "returned"
        /\ NoteResult.created_tasks = LabelsOf(Created)

\* C9: the three creation steps of process_note are independent: when one
\* of them fails, every other step whose flag is true is still attempted
\* and process_note still returns its result.
C9_CreationStepsIndependent ==
    (NoteEnded /\ np.failed # {}) =>
        /\ \A i \in 1..3 : Flag(ArtifactKinds[i]) => ArtifactKinds[i] \in np.attempted
        /\ np.pc = "returned"

(***************************************************************************)
(* Properties of sync_emails.                                              *)
(***************************************************************************)
\* range(0, len(gmail_emails), batch_size): the number of batches
NumBatches(n, batch_size) == (n + batch_size - 1) \div batch_size

\* C7: re-ingesting is idempotent: a sync_emails call made again for the
\* same owner over the same mailbox chunks, embeds and inserts no e-mail
\* whose id is already stored for that owner.
C7_ReSyncSkipsStoredEmails ==
    \A r \in Runs :
        Range(sync[r].processed) \cap sync[r].stored_at_begin = {}

\* C10: in sync_emails the failure of one batch is caught and every later
\* batch is still processed: a call that fetched e-mails ends only after
\* all of them were processed, batch by batch, and it returns.
C10_LaterBatchesStillProcessed ==
    \A r \in Runs :
        LET run == sync[r]
        IN  /\ (run.pc = "batch" /\ run.batches # <<>>) =>
                  run.i <= Len(run.gmail_emails)
            /\ (run.pc = "done" /\ run.gmail_emails # <<>>) =>
                  /\ run.processed = run.gmail_emails
                  /\ Len(run.batches) =
                        NumBatches(Len(run.gmail_emails), run.batch_size)
                  /\ run.result = ApiResponse(TRUE, "emails_synced")

\* a call whose first batch failed and whose second batch was stored
C10_Witness ==
    \E r \in Runs :
        /\ sync[r].pc = "done"
        /\ sync[r].batches = <<FALSE, TRUE>>
        /\ \E row \in emails : row.email_id = sync[r].gmail_emails[Len(sync[r].gmail_emails)]

\* what sync_emails returns when every batch succeeded
AllBatchesSucceeded == ApiResponse(TRUE, "emails_synced")

\* C11: when some batches of a sync_emails call succeed and at least one
\* fails, the call returns (no exception escapes) a result that lists the
\* failed units: it differs from the result of a call in which every batch
\* succeeded.
C11_PartialFailureReported ==
    \A r \in Runs :
        (/\ sync[r].pc = "done"
         /\ \E i, j \in 1..Len(sync[r].batches) :
                sync[r].batches[i] /\ ~sync[r].batches[j]) =>
            /\ DOMAIN sync[r].result = {"success", "message"}
            /\ sync[r].result # AllBatchesSucceeded

(***************************************************************************)
(* Properties of chunk_text.                                               *)
(***************************************************************************)
ChunkTextCalled == chCall.op = "chunk_text"

\* C12: chunk_text terminates and returns at least one chunk for every
\* text that is not empty or whitespace-only, whatever the language model
\* returns (a valid answer, an invalid answer, or a failure of the call).
C12_AtLeastOneChunk ==
    (ChunkTextCalled /\ ~IsBlank(chCall.text)) =>
        /\ ~chCall.raised
        /\ Len(chResult) >= 1

\* C13: chunk_text on an empty or whitespace-only text returns an empty
\* chunk sequence, does not raise and does not call the language model.
C13_BlankTextNoChunks ==
    (ChunkTextCalled /\ IsBlank(chCall.text)) =>
        /\ chResult = <<>>
        /\ ~chCall.raised
        /\ chCall.llm_calls = 0

\* a whitespace-only text, with a model that would have answered with chunks
C13_Witness ==
    /\ ChunkTextCalled
    /\ chCall.text = <<"s", "s">>
    /\ chCall.answer.kind = "valid"
    /\ chCall.answer.value # <<>>
    /\ chResult = <<>>

(***************************************************************************)
(* Properties of the chunking and embedding of one e-mail.                 *)
(***************************************************************************)
EmbeddingsProcessed == chCall.op = "_process_email_embeddings"

\* C20: when the embedding or the upsert of one chunk of an e-mail fails,
\* every chunk of that e-mail whose embedding succeeds is still stored in
\* the index, and the outcome is a partial success, not a total failure.
C20_OtherChunksStillStored ==
    (EmbeddingsProcessed /\ chCall.failing # {}) =>
        /\ \A k \in (1..Len(chCall.chunks)) \ chCall.failing :
              EmailVector(chCall.email_id, chCall.chunks[k]) \in index
        /\ (\E k \in (1..Len(chCall.chunks)) \ chCall.failing : TRUE) =>
              chResult.success

\* C19: in e-mail sync, an e-mail whose chunking step fails with an error
\* is reported as failed, no vector of it is upserted into the index, and
\* it is not inserted into the emails table.
C19_ChunkingFailureNotPersisted ==
    \A r \in Runs :
        \A id \in sync[r].chunking_failed :
            /\ \A v \in index : v.metadata.email_id # id
            /\ \A row \in emails : row.email_id # id
            /\ sync[r].pc = "done" => sync[r].result # AllBatchesSucceeded

(***************************************************************************)
(* Properties of the idea relationships and the due dates of process_note. *)
(***************************************************************************)
\* C14: every idea relationship returned by find_idea_relationships and
\* persisted by process_note has a strength within [0.0, 1.0]; a strength
\* outside that range written by the model is rejected.
C14_StrengthWithinUnitInterval ==
    /\ \A row \in idea_relationships :
          0 <= row.strength /\ row.strength <= StrengthMax
    /\ \A i \in 1..Len(np.relationships) :
          /\ 0 <= np.relationships[i].strength
          /\ np.relationships[i].strength <= StrengthMax

\* C15: no idea relationship persisted by process_note is a self-loop: its
\* source_idea_id, the new diary entry, differs from its target_idea_id.
C15_NoSelfLoopPersisted ==
    \A row \in idea_relationships : row.source_idea_id # row.target_idea_id

\* C16: a relationship whose strength does not exceed the 0.3 threshold is
\* discarded: find_idea_relationships does not return it and process_note
\* does not persist it.
C16_WeakRelationshipsDiscarded ==
    /\ \A row \in idea_relationships : row.strength > StrengthThreshold
    /\ \A i \in 1..Len(np.relationships) :
          np.relationships[i].strength > StrengthThreshold

\* due dates of the form YYYY-MM-DD HH:MM
WellFormedDueDates == {"2025-06-02 15:00"}

\* C17: every due date that reaches create_task is a well-formed
\* YYYY-MM-DD HH:MM string or absent: any other value written by the model
\* is treated as absent before create_task is called.
C17_DueDateWellFormedOrAbsent ==
    /\ \A kind \in {"calendar", "reminder"} \cap np.attempted :
          np.task_data[kind].due_date \in WellFormedDueDates \cup {None}
    /\ \A t \in tasks : t.due_date \in WellFormedDueDates \cup {None}

\* C18: every vector-index query issued on behalf of a user is filtered by
\* that user's identity; for the similar-note search of process_note: no
\* match, and no note put in the extraction prompt, is owned by another
\* user.
C18_SimilarNotesOwnedByUser ==
    /\ \A i \in 1..Len(np.matches) : np.matches[i].metadata.user = np.user_name
    /\ \A i \in 1..Len(np.context) : np.context[i].metadata.user = np.user_name

(***************************************************************************)
(* Properties of the repair of a model answer.                             *)
(***************************************************************************)
\* the result a TaskExtractor call gives up with
DefaultOf(op) ==
    IF op = "extract_tasks" THEN _get_default_task_result ELSE <<>>

IsPrefix(a, b) == Len(a) <= Len(b) /\ SubSeq(b, 1, Len(a)) = a

\* the chunking model was called and failed, or its answer did not parse
ChunkingFellBack ==
    ChunkTextCalled /\ ~IsBlank(chCall.text) /\ chCall.answer.kind # "valid"

\* C22: when the chunking model call fails or its response cannot be
\* parsed, chunk_text returns exactly one chunk, of type fallback_summary,
\* whose text is a prefix of the input of at most 500 characters.
C22_FallbackIsInputPrefix ==
    ChunkingFellBack =>
        /\ Len(chResult) = 1
        /\ chResult[1].chunk_type = "fallback_summary"
        /\ IsPrefix(chResult[1].chunk_text, chCall.text)
        /\ Len(chResult[1].chunk_text) <= FallbackLimit

\* C23: every chunk returned by chunk_text, the fallback chunk included,
\* has a non-empty chunk_text, also when cleaning removes all of a
\* non-blank input.
C23_ChunkTextNonEmpty ==
    ChunkTextCalled =>
        \A k \in 1..Len(chResult) : chResult[k].chunk_text # <<>>

\* the chunks of the last direct call
CallChunks ==
    IF ChunkTextCalled THEN chResult
    ELSE IF EmbeddingsProcessed THEN chCall.chunks
    ELSE <<>>

\* C24: a chunk id is a function of the chunk's text and its ordinal
\* position only (the same text at the same position gives the same id),
\* and two chunks at different positions of one document never share an
\* id.
C24_ChunkIdsDeterministicAndDistinct ==
    /\ \A k \in 1..Len(CallChunks) :
          CallChunks[k].chunk_id = ChunkId(CallChunks[k].chunk_text, k - 1)
    /\ \A k, l \in 1..Len(CallChunks) :
          k # l => CallChunks[k].chunk_id # CallChunks[l].chunk_id

\* two chunks of one call, the first with the text of the second followed
\* by the suffix of position 1
C24_Witness ==
    /\ ChunkTextCalled
    /\ Len(chResult) = 2
    /\ chResult[1].chunk_text = <<"w", "_", "1">>
    /\ chResult[2].chunk_text = <<"w">>
    /\ chResult[1].chunk_id # chResult[2].chunk_id

(***************************************************************************)
(* Properties of the credential cache.                                     *)
(***************************************************************************)
\* the requests of a user at one of the given positions
CredAt(user, pcs) ==
    { r \in CredReqs : cred.req[r].user = user /\ cred.req[r].pc \in pcs }

\* C25: under concurrent requests for the same user at most one refresh of
\* the user's credentials is in progress at any moment, at most one request
\* is between obtaining credentials and writing them, and no write of the
\* user's entry comes between the read and the write of a refresh (no
\* update is lost).
C25_SingleWriterAtATime ==
    /\ \A user \in Users :
          /\ Cardinality(CredAt(user, {"refreshing"})) <= 1
          /\ Cardinality(CredAt(user, {"refreshing", "fetching", "write"})) <= 1
    /\ ~cred.lost

\* a refresh has written the user's entry after an earlier request wrote it
C25_Witness ==
    \E r \in CredReqs :
        /\ cred.req[r].kind = "get"
        /\ cred.req[r].pc = "done"
        /\ cred.req[r].local = "valid"
        /\ cred.req[r].seen >= 1
        /\ cred.ver[cred.req[r].user] = cred.req[r].seen + 1

(***************************************************************************)
(* Further properties of note ingestion.                                   *)
(***************************************************************************)
\* C26: the similar notes handed to extract_tasks during the ingestion of
\* a note are prior notes only: the note being ingested, upserted into the
\* index before process_note searches it, is never among them.
C26_ContextHoldsPriorNotesOnly ==
    /\ \A i \in 1..Len(np.matches) : np.matches[i].id # <<"note", np.note_id>>
    /\ \A i \in 1..Len(np.context) : np.context[i].id # <<"note", np.note_id>>

(***************************************************************************)
(* Properties that relate e-mail sync and retrieval.                       *)
(***************************************************************************)
\* the user whose mailbox holds the message
OwnerOf(email_id) == email_id[1]

\* C29: a chunk that sync_emails stored in the index for a user is
\* retrievable by that user's ask_question: when the user asks, the search
\* succeeds and max_context_items is not below the size of the index, the
\* chunk is among context_items, with its text as content.
C29_StoredChunkRetrievable ==
    [][ (askCall' # askCall /\ ~askCall'.search_failed) =>
          \A v \in index :
              (/\ OwnerOf(v.metadata.email_id) = askCall'.user_id
               /\ Cardinality(index) <= askCall'.top_k) =>
                  \E i \in 1..Len(askResp'.context_items) :
                      /\ askResp'.context_items[i].id = v.id
                      /\ askResp'.context_items[i].content = v.metadata.chunk_text
      ]_vars

\* no sync_emails call is in progress
NoSyncInProgress == \A r \in Runs : sync[r].pc \in {"idle", "done"}

\* C27: after any sync_emails run the index and the relational store
\* agree: an e-mail has vectors in the index only if it has a row in the
\* emails table, also when the batch insert failed after the chunks of the
\* batch were upserted.
C27_VectorsOnlyOfStoredEmails ==
    NoSyncInProgress =>
        \A v \in index :
            \E row \in emails : row.email_id = v.metadata.email_id

\* C28: when two sync_emails runs for the same owner interleave (both
\* having read the stored ids), each e-mail id is chunked, embedded and
\* inserted by at most one of them.
C28_InterleavedRunsShareNoEmail ==
    \A r \in Runs :
        \A o \in sync[r].began_during :
            (/\ sync[o].user = sync[r].user
             /\ ~sync[o].lookup_failed
             /\ ~sync[r].lookup_failed) =>
                Range(sync[r].processed) \cap Range(sync[o].processed) = {}

\* C30: when the lookup of the owner's already-stored e-mail ids fails,
\* sync_emails still never chunks, embeds or inserts an e-mail whose id
\* is already stored for that owner.
C30_FailedLookupSkipsStoredEmails ==
    \A r \in Runs :
        sync[r].lookup_failed =>
            \A k \in 1..Len(sync[r].processed) :
                sync[r].processed[k] \notin sync[r].stored_at_begin

====
